---- MODULE Spec2Model ----
(***************************************************************************)
(* A model of shykes/gha: the generator of GitHub Actions workflow files   *)
(* from Dagger pipelines.                                                  *)
(*                                                                         *)
(* Strings whose characters matter (pipeline names, secret names, file     *)
(* names) are sequences of one-character strings, so that the regular      *)
(* expressions and the string functions of the code are computed character *)
(* by character.  Other strings (commands, branch names, ...) are atoms.   *)
(* A Go pointer or nil-able slice is a sequence of length 0 (nil) or 1.    *)
(***************************************************************************)
EXTENDS Integers, Sequences, FiniteSets, TLC

VARIABLES
    m,        \* the Gha object: the four trigger lists and the Settings
    ret,      \* what the last call on m returned: its status and, for Config, the directory
    calls,    \* history: the kind and name of every successful registration, in call order
    fnIn,     \* the name given to the pure function under study
    fnOp,     \* which function was applied ("none" before the first call)
    fnOut     \* the successive results: <<f(n)>>, then <<f(n), f(f(n))>>

vars == <<m, ret, calls, fnIn, fnOp, fnOut>>

----------------------------------------------------------------------------
(* Bounds of the model *)

MaxNameLen == 3
MaxTriggers == 2

----------------------------------------------------------------------------
(* Characters and character classes (ASCII, as far as the model's alphabet goes) *)

LowerSeq == <<"a", "b", "c", "d", "e", "f", "g", "h", "i", "j", "k", "l", "m", "n", "o", "p", "q", "r", "s", "t", "u", "v", "w", "x", "y", "z">>
UpperSeq == <<"A", "B", "C", "D", "E", "F", "G", "H", "I", "J", "K", "L", "M", "N", "O", "P", "Q", "R", "S", "T", "U", "V", "W", "X", "Y", "Z">>

LowerChars == {LowerSeq[i] : i \in 1..26}
UpperChars == {UpperSeq[i] : i \in 1..26}
DigitChars == {"0", "1", "2", "3", "4", "5", "6", "7", "8", "9"}

\* the characters pipeline names are drawn from: a lowercase letter, an uppercase
\* letter, a digit, underscore, hyphen, space and a punctuation mark
NameChars == {"a", "B", "1", "_", "-", " ", "!"}

\* strings.ToLower, on one character
ToLowerChar(c) ==
    IF c \in UpperChars THEN LowerSeq[CHOOSE i \in 1..26 : UpperSeq[i] = c] ELSE c

\* strings.ToUpper, on one character
ToUpperChar(c) ==
    IF c \in LowerChars THEN UpperSeq[CHOOSE i \in 1..26 : LowerSeq[i] = c] ELSE c

\* [a-z0-9]
IsLowerAlnum(c) == c \in LowerChars \cup DigitChars

\* [a-zA-Z0-9_-]
IsJobIDChar(c) == c \in LowerChars \cup UpperChars \cup DigitChars \cup {"_", "-"}

\* [a-zA-Z_]
IsLetterOrUnderscore(c) == c \in LowerChars \cup UpperChars \cup {"_"}

\* [a-zA-Z0-9_]
IsSecretChar(c) == c \in LowerChars \cup UpperChars \cup DigitChars \cup {"_"}

\* strings.ToLower
ToLower(s) == [i \in 1..Len(s) |-> ToLowerChar(s[i])]

\* strings.ToUpper
ToUpper(s) == [i \in 1..Len(s) |-> ToUpperChar(s[i])]

\* regexp `[^a-z0-9]+` . ReplaceAllString(s, "-"): every maximal run of
\* characters outside [a-z0-9] becomes one hyphen
ReplaceNonAlnumRuns(s) ==
    LET marked == [i \in 1..Len(s) |->
                     IF IsLowerAlnum(s[i]) THEN s[i]
                     ELSE IF i > 1 /\ ~IsLowerAlnum(s[i-1]) THEN ""   \* inside a run
                     ELSE "-"]                                        \* a run starts
        Kept(c) == c # ""
    IN SelectSeq(marked, Kept)

RECURSIVE TrimLeft(_, _)
TrimLeft(s, c) ==
    IF s # <<>> /\ Head(s) = c THEN TrimLeft(Tail(s), c) ELSE s

RECURSIVE TrimRight(_, _)
TrimRight(s, c) ==
    IF s # <<>> /\ s[Len(s)] = c THEN TrimRight(SubSeq(s, 1, Len(s) - 1), c) ELSE s

\* strings.Trim(s, c) for a one-character cutset
Trim(s, c) == TrimRight(TrimLeft(s, c), c)

\* strings.ReplaceAll(s, old, new) for one-character old and new
ReplaceAllChar(s, old, new) == [i \in 1..Len(s) |-> IF s[i] = old THEN new ELSE s[i]]

YmlExt == <<".", "y", "m", "l">>

\* the name without the extension: lowercase, runs to hyphens, trimmed
Slug(name) == Trim(ReplaceNonAlnumRuns(ToLower(name)), "-")

\* mutant: the extension is appended only when it is not there yet
WorkflowFilenameKeepExt(name) ==
    LET s == Slug(name)
        n == Len(name)
    IN IF n >= 4 /\ SubSeq(name, n - 3, n) = YmlExt
       THEN Slug(SubSeq(name, 1, n - 4)) \o YmlExt
       ELSE s \o YmlExt

\* Pipeline.workflowFilename
workflowFilename(name) == Slug(name) \o YmlExt

JobIDMaxLen == 99

\* as jobID, but the underscore is put before every id that does not start with a letter
JobIDPrefixUnlessLetter(name) ==
    LET replaced == ReplaceAllChar(name, " ", "-")
        stripped == SelectSeq(replaced, IsJobIDChar)
        prefixed == IF stripped # <<>> /\ stripped[1] \notin LowerChars \cup UpperChars
                    THEN <<"_">> \o stripped
                    ELSE stripped
    IN IF Len(prefixed) > JobIDMaxLen THEN SubSeq(prefixed, 1, JobIDMaxLen) ELSE prefixed

\* Pipeline.jobID
jobID(name) ==
    LET replaced == ReplaceAllChar(name, " ", "-")
        stripped == SelectSeq(replaced, IsJobIDChar)
        prefixed == IF stripped # <<>> /\ ~IsLetterOrUnderscore(stripped[1])
                    THEN <<"_">> \o stripped
                    ELSE stripped
    IN IF Len(prefixed) > JobIDMaxLen THEN SubSeq(prefixed, 1, JobIDMaxLen) ELSE prefixed

----------------------------------------------------------------------------
(* Literal strings *)

KeyCOMMAND == <<"C", "O", "M", "M", "A", "N", "D">>
KeyDAGGER_MODULE == <<"D", "A", "G", "G", "E", "R", "_", "M", "O", "D", "U", "L", "E">>
KeyDAGGER_CLOUD_TOKEN == <<"D", "A", "G", "G", "E", "R", "_", "C", "L", "O", "U", "D", "_", "T", "O", "K", "E", "N">>
KeyEXPERIMENTAL_DAGGER_CLOUD_TOKEN == <<"_", "E", "X", "P", "E", "R", "I", "M", "E", "N", "T", "A", "L", "_", "D", "A", "G", "G", "E", "R", "_", "C", "L", "O", "U", "D", "_", "T", "O", "K", "E", "N">>
KeyDAGGER_VERSION == <<"D", "A", "G", "G", "E", "R", "_", "V", "E", "R", "S", "I", "O", "N">>
KeyGITHUB_ == <<"G", "I", "T", "H", "U", "B", "_">>

genHeader == <<"# This file was generated. See https://daggerverse.dev/mod/github.com/shykes/gha">>

\* List of keys available as '${{github.KEY}}'
githubContextKeys == <<
    <<"a", "c", "t", "i", "o", "n">>,
    <<"a", "c", "t", "i", "o", "n", "_", "p", "a", "t", "h">>,
    <<"a", "c", "t", "i", "o", "n", "_", "r", "e", "f">>,
    <<"a", "c", "t", "i", "o", "n", "_", "r", "e", "p", "o", "s", "i", "t", "o", "r", "y">>,
    <<"a", "c", "t", "i", "o", "n", "_", "s", "t", "a", "t", "u", "s">>,
    <<"a", "c", "t", "o", "r">>,
    <<"a", "c", "t", "o", "r", "_", "i", "d">>,
    <<"a", "p", "i", "_", "u", "r", "l">>,
    <<"b", "a", "s", "e", "_", "r", "e", "f">>,
    <<"e", "n", "v">>,
    <<"e", "v", "e", "n", "t", "_", "n", "a", "m", "e">>,
    <<"e", "v", "e", "n", "t", "_", "p", "a", "t", "h">>,
    <<"g", "r", "a", "p", "h", "q", "l", "_", "u", "r", "l">>,
    <<"h", "e", "a", "d", "_", "r", "e", "f">>,
    <<"j", "o", "b">>,
    <<"p", "a", "t", "h">>,
    <<"r", "e", "f">>,
    <<"r", "e", "f", "_", "n", "a", "m", "e">>,
    <<"r", "e", "f", "_", "p", "r", "o", "t", "e", "c", "t", "e", "d">>,
    <<"r", "e", "f", "_", "t", "y", "p", "e">>,
    <<"r", "e", "p", "o", "s", "i", "t", "o", "r", "y">>,
    <<"r", "e", "p", "o", "s", "i", "t", "o", "r", "y", "_", "i", "d">>,
    <<"r", "e", "p", "o", "s", "i", "t", "o", "r", "y", "_", "o", "w", "n", "e", "r">>,
    <<"r", "e", "p", "o", "s", "i", "t", "o", "r", "y", "_", "o", "w", "n", "e", "r", "_", "i", "d">>,
    <<"r", "e", "p", "o", "s", "i", "t", "o", "r", "y", "U", "r", "l">>,
    <<"r", "e", "t", "e", "n", "t", "i", "o", "n", "_", "d", "a", "y", "s">>,
    <<"r", "u", "n", "_", "i", "d">>,
    <<"r", "u", "n", "_", "n", "u", "m", "b", "e", "r">>,
    <<"r", "u", "n", "_", "a", "t", "t", "e", "m", "p", "t">>,
    <<"s", "e", "c", "r", "e", "t", "_", "s", "o", "u", "r", "c", "e">>,
    <<"s", "e", "r", "v", "e", "r", "_", "u", "r", "l">>,
    <<"s", "h", "a">>,
    <<"t", "o", "k", "e", "n">>,
    <<"t", "r", "i", "g", "g", "e", "r", "i", "n", "g", "_", "a", "c", "t", "o", "r">>,
    <<"w", "o", "r", "k", "f", "l", "o", "w">>,
    <<"w", "o", "r", "k", "f", "l", "o", "w", "_", "r", "e", "f">>,
    <<"w", "o", "r", "k", "f", "l", "o", "w", "_", "s", "h", "a">>,
    <<"w", "o", "r", "k", "s", "p", "a", "c", "e">>
>>

\* the files checked in under scripts/ in the module source, which bashStep reads
ModuleScripts == {
    <<"scripts/", "install-dagger", ".sh">>,
    <<"scripts/", "warm-engine", ".sh">>,
    <<"scripts/", "exec", ".sh">>,
    <<"scripts/", "stop-engine", ".sh">> }

\* the contents of a script of the module source
ScriptContents(filename) == <<"contents of ">> \o filename

----------------------------------------------------------------------------
(* Helpers on maps and lists *)

\* map[k] = v on a Go map: a later assignment to the same key wins
Put(env, k, v) == [x \in DOMAIN env \cup {k} |-> IF x = k THEN v ELSE env[x]]

\* the concatenation of a list of strings
RECURSIVE Concat(_)
Concat(list) == IF list = <<>> THEN <<>> ELSE Head(list) \o Concat(Tail(list))

\* strings.Join(list, sep)
RECURSIVE Join(_, _)
Join(list, sep) ==
    IF list = <<>> THEN <<>>
    ELSE IF Len(list) = 1 THEN list[1]
    ELSE list[1] \o sep \o Join(Tail(list), sep)

\* encoding with `omitempty`: the fields whose value is empty (an empty string,
\* a nil pointer, an empty slice or map) are left out
OmitEmpty(r, always) == [k \in {k \in DOMAIN r : k \in always \/ r[k] # <<>>} |-> r[k]]

----------------------------------------------------------------------------
(* Secret names *)

\* regexp `^[a-zA-Z0-9_]+$`
ValidSecretName(s) == s # <<>> /\ \A i \in 1..Len(s) : IsSecretChar(s[i])

\* the error of validateSecretNames and Pipeline.checkSecretNames: <<>> is nil
SecretNameError(secrets) ==
    IF \A i \in 1..Len(secrets) : ValidSecretName(secrets[i])
    THEN <<>>
    ELSE LET i == CHOOSE i \in 1..Len(secrets) :
                    /\ ~ValidSecretName(secrets[i])
                    /\ \A j \in 1..(i - 1) : ValidSecretName(secrets[j])
         IN << <<"invalid secret name: '">> \o secrets[i]
               \o <<"' must contain only alphanumeric characters and underscores">> >>

validateSecretNames(secrets) == SecretNameError(secrets)

checkSecretNames(p) == SecretNameError(p.Secrets)

----------------------------------------------------------------------------
(* Gha, Settings, Pipeline *)

\* New
New(noTraces, publicToken, daggerVersion, stopEngine, asJson, runner) ==
    [ PushTriggers |-> <<>>,
      PullRequestTriggers |-> <<>>,
      DispatchTriggers |-> <<>>,
      IssueCommentTriggers |-> <<>>,
      Settings |-> [ PublicToken |-> publicToken,
                     NoTraces |-> noTraces,
                     DaggerVersion |-> daggerVersion,
                     StopEngine |-> stopEngine,
                     AsJson |-> asJson,
                     Runner |-> runner ] ]

\* as pipeline, but the runner argument is not read
PipelineDefaultRunner(g, name, command, module, runner, secrets, sparseCheckout) ==
    [ Name |-> name, Command |-> command, Module |-> module, Secrets |-> secrets,
      SparseCheckout |-> sparseCheckout, Settings |-> g.Settings ]

\* Gha.pipeline
pipeline(g, name, command, module, runner, secrets, sparseCheckout) ==
    LET p == [ Name |-> name,
               Command |-> command,
               Module |-> module,
               Secrets |-> secrets,
               SparseCheckout |-> sparseCheckout,
               Settings |-> g.Settings ]
    IN IF runner # <<>> THEN [p EXCEPT !.Settings.Runner = runner] ELSE p

----------------------------------------------------------------------------
(* Rendering a pipeline: Pipeline.asWorkflow and its steps.  A step          *)
(* constructor yields [panic |-> TRUE] when it panics.                      *)

Step(name, id, uses, run, shell, with, env) ==
    [ panic |-> FALSE,
      step |-> [ Name |-> name, ID |-> id, Uses |-> uses, Run |-> run,
                 Shell |-> shell, With |-> with, Env |-> env ] ]

\* as bashStep, but the step names the script as an action besides running it
BashStepWithUses(id, env) ==
    LET filename == <<"scripts/">> \o id \o <<".sh">>
    IN IF filename \in ModuleScripts
       THEN Step(filename, id, filename, ScriptContents(filename), <<"bash">>, <<>>, env)
       ELSE [panic |-> TRUE]

\* Pipeline.bashStep
bashStep(id, env) ==
    LET filename == <<"scripts/">> \o id \o <<".sh">>
    IN IF filename \in ModuleScripts
       THEN Step(filename, id, <<>>, ScriptContents(filename), <<"bash">>, <<>>, env)
       ELSE [panic |-> TRUE]

\* as checkoutStep, but the paths of the module are put before the configured ones
CheckoutStepModuleFirst(p) ==
    IF p.SparseCheckout # <<>>
    THEN LET sparseCheckout == << <<"dagger.json">>, <<".dagger">>, <<"dagger">>, <<"ci">> >>
                               \o p.SparseCheckout[1]
         IN Step(<<"Checkout">>, <<>>, <<"actions/checkout@v4">>, <<>>, <<>>,
                 Put(<<>>, <<"sparse-checkout">>, Join(sparseCheckout, <<"\n">>)), <<>>)
    ELSE Step(<<"Checkout">>, <<>>, <<"actions/checkout@v4">>, <<>>, <<>>, <<>>, <<>>)

\* Pipeline.checkoutStep
checkoutStep(p) ==
    IF p.SparseCheckout # <<>>
    THEN LET sparseCheckout == p.SparseCheckout[1]
                 \o << <<"dagger.json">>, <<".dagger">>, <<"dagger">>, <<"ci">> >>
         IN Step(<<"Checkout">>, <<>>, <<"actions/checkout@v4">>, <<>>, <<>>,
                 Put(<<>>, <<"sparse-checkout">>, Join(sparseCheckout, <<"\n">>)), <<>>)
    ELSE Step(<<"Checkout">>, <<>>, <<"actions/checkout@v4">>, <<>>, <<>>, <<>>, <<>>)

\* Pipeline.warmEngineStep
warmEngineStep(p) == bashStep(<<"warm-engine">>, <<>>)

\* Pipeline.installDaggerStep
installDaggerStep(p) ==
    bashStep(<<"install-dagger">>, Put(<<>>, KeyDAGGER_VERSION, p.Settings.DaggerVersion))

RECURSIVE InjectSecrets(_, _)
InjectSecrets(env, secrets) ==
    IF secrets = <<>> THEN env
    ELSE InjectSecrets(Put(env, Head(secrets), <<"${{ secrets.">> \o Head(secrets) \o <<" }}">>),
                       Tail(secrets))

\* as InjectContextKeys, but the key keeps its case in the name of the variable
InjectContextKeysSameCase(env, keys) ==
    LET names == {KeyGITHUB_ \o keys[i] : i \in DOMAIN keys}
    IN [x \in DOMAIN env \cup names |->
          IF x \in names
          THEN <<"${{ github.">> \o SubSeq(x, Len(KeyGITHUB_) + 1, Len(x)) \o <<" }}">>
          ELSE env[x]]

RECURSIVE InjectContextKeys(_, _)
InjectContextKeys(env, keys) ==
    IF keys = <<>> THEN env
    ELSE InjectContextKeys(Put(env, KeyGITHUB_ \o ToUpper(Head(keys)),
                               <<"${{ github.">> \o Head(keys) \o <<" }}">>),
                           Tail(keys))

\* the entries the loop over githubContextKeys assigns: github.ref becomes
\* GITHUB_REF, etc.
GithubContextEnv == InjectContextKeys(<<>>, githubContextKeys)

\* assigning every entry of b into a
Merge(a, b) == [x \in DOMAIN a \cup DOMAIN b |-> IF x \in DOMAIN b THEN b[x] ELSE a[x]]

\* as callDaggerEnv, but the token is written under the current name only
CallDaggerEnvNoLegacy(p) ==
    LET e1 == Put(<<>>, KeyCOMMAND, <<"dagger call -q ">> \o p.Command)
        e2 == InjectSecrets(e1, p.Secrets)
        e3 == IF p.Module # <<>> THEN Put(e2, KeyDAGGER_MODULE, p.Module) ELSE e2
        token == IF p.Settings.PublicToken # <<>>
                 THEN p.Settings.PublicToken
                 ELSE <<"${{ secrets.DAGGER_CLOUD_TOKEN }}">>
        e4 == IF ~p.Settings.NoTraces THEN Put(e3, KeyDAGGER_CLOUD_TOKEN, token) ELSE e3
    IN Merge(e4, GithubContextEnv)

\* the environment Pipeline.callDaggerStep builds
callDaggerEnv(p) ==
    LET e1 == Put(<<>>, KeyCOMMAND, <<"dagger call -q ">> \o p.Command)
        e2 == InjectSecrets(e1, p.Secrets)
        e3 == IF p.Module # <<>> THEN Put(e2, KeyDAGGER_MODULE, p.Module) ELSE e2
        token == IF p.Settings.PublicToken # <<>>
                 THEN p.Settings.PublicToken
                 ELSE <<"${{ secrets.DAGGER_CLOUD_TOKEN }}">>
        e4 == IF ~p.Settings.NoTraces
              THEN Put(Put(e3, KeyDAGGER_CLOUD_TOKEN, token),
                       KeyEXPERIMENTAL_DAGGER_CLOUD_TOKEN, token)
              ELSE e3
    IN Merge(e4, GithubContextEnv)

\* as callDaggerStep, but the step takes the name of the function as its ID
CallDaggerStepOwnID(p) ==
    Step(<<"scripts/", "exec", ".sh">>, <<"call-dagger">>, <<>>,
         ScriptContents(<<"scripts/", "exec", ".sh">>), <<"bash">>, <<>>, callDaggerEnv(p))

\* Pipeline.callDaggerStep
callDaggerStep(p) == bashStep(<<"exec">>, callDaggerEnv(p))

\* Pipeline.stopEngineStep
stopEngineStep(p) == bashStep(<<"scripts/stop-engine.sh">>, <<>>)

NoTriggers == [ Push |-> <<>>, PullRequest |-> <<>>, WorkflowDispatch |-> <<>>,
                IssueComment |-> <<>> ]

\* Pipeline.asWorkflow: [panic |-> TRUE] or [panic |-> FALSE, workflow |-> w]
asWorkflow(p) ==
    LET made == << checkoutStep(p), installDaggerStep(p), warmEngineStep(p),
                   callDaggerStep(p) >>
                \o (IF p.Settings.StopEngine THEN <<stopEngineStep(p)>> ELSE <<>>)
    IN IF \E i \in 1..Len(made) : made[i].panic
       THEN [panic |-> TRUE]
       ELSE [ panic |-> FALSE,
              workflow |->
                [ Name |-> p.Name,
                  On |-> NoTriggers,
                  Jobs |-> Put(<<>>, jobID(p.Name),
                               [ RunsOn |-> p.Settings.Runner,
                                 Steps |-> [i \in 1..Len(made) |-> made[i].step],
                                 Outputs |-> [ stdout |-> <<"${{ steps.exec.outputs.stdout }}">>,
                                               stderr |-> <<"${{ steps.exec.outputs.stderr }}">> ] ]) ] ]

\* PushTrigger.asWorkflow, PullRequestTrigger.asWorkflow, DispatchTrigger.asWorkflow,
\* IssueCommentTrigger.asWorkflow: the pipeline's workflow with the one trigger set
triggerAsWorkflow(kind, t) ==
    LET r == asWorkflow(t.Pipeline)
    IN IF r.panic THEN r
       ELSE [r EXCEPT !.workflow.On = [NoTriggers EXCEPT ![kind] = <<t.Event>>]]

----------------------------------------------------------------------------
(* Encoding a workflow and writing it into a directory *)

MarshalStep(s) ==
    OmitEmpty([ name |-> s.Name, id |-> s.ID, uses |-> s.Uses, run |-> s.Run,
                with |-> s.With, env |-> s.Env, shell |-> s.Shell ], {})

MarshalJob(j) ==
    OmitEmpty(("runs-on" :> j.RunsOn) @@
              [ steps |-> [i \in 1..Len(j.Steps) |-> MarshalStep(j.Steps[i])],
                outputs |-> j.Outputs ], {"runs-on", "steps"})

\* an event is a record of lists, each left out when empty
\* the json and yaml tags of the fields of the events
EventTag == [Branches |-> "branches", Tags |-> "tags", Paths |-> "paths", Types |-> "types"]

MarshalEvent(e) ==
    LET live == {k \in DOMAIN e : e[k] # <<>>}
    IN [t \in {EventTag[k] : k \in live} |-> e[CHOOSE k \in live : EventTag[k] = t]]

MarshalTriggers(on) ==
    LET tagged == [ push |-> on.Push, pull_request |-> on.PullRequest,
                    workflow_dispatch |-> on.WorkflowDispatch,
                    issue_comment |-> on.IssueComment ]
    IN [k \in {k \in DOMAIN tagged : tagged[k] # <<>>} |-> MarshalEvent(tagged[k][1])]

\* json.MarshalIndent(w) and yaml.Marshal(w): the same document in either syntax
Marshal(w) ==
    OmitEmpty([ name |-> w.Name,
                on |-> MarshalTriggers(w.On),
                jobs |-> [id \in DOMAIN w.Jobs |-> MarshalJob(w.Jobs[id])] ],
              {"on", "jobs"})

\* Workflow.Config: a directory holding the one file
WorkflowConfig(w, filename, asJson) ==
    Put(<<>>, <<".github/workflows/">> \o filename,
        [ header |-> genHeader,
          syntax |-> IF asJson THEN "json" ELSE "yaml",
          doc |-> Marshal(w) ])

\* Directory.WithDirectory(".", d): the files of d are added, replacing those
\* of the same path
WithDirectory(dir, d) ==
    [f \in DOMAIN dir \cup DOMAIN d |-> IF f \in DOMAIN d THEN d[f] ELSE dir[f]]

----------------------------------------------------------------------------
(* The arguments the calls are made with *)

Names == { <<"a">>, <<"A">>, <<"a", " ", "b">> }

Commands == { <<"build --source=.">> }

\* a valid list of secrets and one holding a name with a hyphen
SecretLists == { << <<"T", "O", "K">> >>, << <<"T", "O", "K">>, <<"a", "-", "b">> >> }

\* module, runner and sparse checkout, left out or given
PipelineOptions ==
    { [module |-> <<>>, runner |-> <<>>, sparseCheckout |-> <<>>],
      [module |-> <<"github.com/shykes/core">>, runner |-> <<"self-hosted">>,
       sparseCheckout |-> << << <<"src">>, <<"tests">> >> >>] }

PushFilters ==
    { [Branches |-> << <<"main">> >>, Tags |-> <<>>, Paths |-> <<>>],
      [Branches |-> << <<"dev">> >>, Tags |-> << <<"v*">> >>, Paths |-> << <<"src/**">> >>] }

PullRequestFilters == { [Types |-> << <<"opened">> >>, Branches |-> << <<"main">> >>] }

IssueCommentFilters == { [Types |-> << <<"created">> >>] }

\* the arguments of New
NewArguments ==
    [ noTraces : {FALSE}, publicToken : {<<>>}, daggerVersion : {<<"latest">>},
      stopEngine : BOOLEAN, asJson : {FALSE}, runner : {<<"ubuntu-latest">>} ]

----------------------------------------------------------------------------
(* The calls on the Gha object *)

Returned(op, status, err, dir) == [op |-> op, status |-> status, err |-> err, dir |-> dir]

NumTriggers(g) ==
    Len(g.PushTriggers) + Len(g.PullRequestTriggers)
    + Len(g.DispatchTriggers) + Len(g.IssueCommentTriggers)

FnIdle == fnIn = <<>> /\ fnOp = "idle" /\ fnOut = <<>>

Init ==
    /\ \E a \in NewArguments :
         m = New(a.noTraces, a.publicToken, a.daggerVersion, a.stopEngine, a.asJson, a.runner)
    /\ ret = Returned("New", "ok", <<>>, <<>>)
    /\ calls = <<>>
    /\ FnIdle

\* as OnPush, but the trigger takes the place of the push triggers of the same name
OnPushReplacing(name, command, module, secrets, branches, tags, paths, runner, sparseCheckout) ==
    /\ NumTriggers(m) < MaxTriggers
    /\ m' = [m EXCEPT !.PushTriggers = Append(SelectSeq(@, LAMBDA t : t.Pipeline.Name # name),
                [ Event |-> [Branches |-> branches, Tags |-> tags, Paths |-> paths],
                  Pipeline |-> pipeline(m, name, command, module, runner, secrets,
                                        sparseCheckout) ])]
    /\ ret' = Returned("OnPush", "ok", <<>>, <<>>)
    /\ calls' = Append(calls, [kind |-> "Push", name |-> name])
    /\ UNCHANGED <<fnIn, fnOp, fnOut>>

\* Gha.OnPush
OnPush(name, command, module, secrets, branches, tags, paths, runner, sparseCheckout) ==
    /\ NumTriggers(m) < MaxTriggers
    /\ m' = [m EXCEPT !.PushTriggers = Append(@,
                [ Event |-> [Branches |-> branches, Tags |-> tags, Paths |-> paths],
                  Pipeline |-> pipeline(m, name, command, module, runner, secrets,
                                        sparseCheckout) ])]
    /\ ret' = Returned("OnPush", "ok", <<>>, <<>>)
    /\ calls' = Append(calls, [kind |-> "Push", name |-> name])
    /\ UNCHANGED <<fnIn, fnOp, fnOut>>

\* Gha.OnPullRequest
OnPullRequest(name, command, module, secrets, branches, types, runner) ==
    /\ NumTriggers(m) < MaxTriggers
    /\ LET err == validateSecretNames(secrets)
       IN IF err # <<>>
          THEN /\ ret' = Returned("OnPullRequest", "panic", err, <<>>)
               /\ UNCHANGED <<m, calls>>
          ELSE /\ m' = [m EXCEPT !.PullRequestTriggers = Append(@,
                           [ Event |-> [Types |-> types, Branches |-> branches, Paths |-> <<>>],
                             Pipeline |-> pipeline(m, name, command, module, runner, secrets,
                                                   <<>>) ])]
               /\ ret' = Returned("OnPullRequest", "ok", <<>>, <<>>)
               /\ calls' = Append(calls, [kind |-> "PullRequest", name |-> name])
    /\ UNCHANGED <<fnIn, fnOp, fnOut>>

\* Gha.OnDispatch
OnDispatch(name, command, module, secrets, runner, sparseCheckout) ==
    /\ NumTriggers(m) < MaxTriggers
    /\ LET err == validateSecretNames(secrets)
       IN IF err # <<>>
          THEN /\ ret' = Returned("OnDispatch", "panic", err, <<>>)
               /\ UNCHANGED <<m, calls>>
          ELSE /\ m' = [m EXCEPT !.DispatchTriggers = Append(@,
                           [ Event |-> <<>>,
                             Pipeline |-> pipeline(m, name, command, module, runner, secrets,
                                                   sparseCheckout) ])]
               /\ ret' = Returned("OnDispatch", "ok", <<>>, <<>>)
               /\ calls' = Append(calls, [kind |-> "WorkflowDispatch", name |-> name])
    /\ UNCHANGED <<fnIn, fnOp, fnOut>>

\* Gha.OnIssueComment
OnIssueComment(name, command, module, secrets, runner, sparseCheckout, types) ==
    /\ NumTriggers(m) < MaxTriggers
    /\ LET err == validateSecretNames(secrets)
       IN IF err # <<>>
          THEN /\ ret' = Returned("OnIssueComment", "panic", err, <<>>)
               /\ UNCHANGED <<m, calls>>
          ELSE /\ m' = [m EXCEPT !.IssueCommentTriggers = Append(@,
                           [ Event |-> [Types |-> types],
                             Pipeline |-> pipeline(m, name, command, module, runner, secrets,
                                                   sparseCheckout) ])]
               /\ ret' = Returned("OnIssueComment", "ok", <<>>, <<>>)
               /\ calls' = Append(calls, [kind |-> "IssueComment", name |-> name])
    /\ UNCHANGED <<fnIn, fnOp, fnOut>>

\* PushTrigger.Config, PullRequestTrigger.Config, DispatchTrigger.Config,
\* IssueCommentTrigger.Config
triggerConfig(kind, t, filename, asJson) ==
    WorkflowConfig(triggerAsWorkflow(kind, t).workflow, filename, asJson)

\* one loop of Gha.Config: the triggers of one kind, written in their order
RECURSIVE WriteTriggers(_, _, _, _)
WriteTriggers(dir, kind, triggers, asJson) ==
    IF triggers = <<>> THEN dir
    ELSE WriteTriggers(
             WithDirectory(dir, triggerConfig(kind, Head(triggers),
                                              workflowFilename(Head(triggers).Pipeline.Name),
                                              asJson)),
             kind, Tail(triggers), asJson)

\* the directory Gha.Config returns when no rendering panics
ConfigDirectory(g) ==
    LET d1 == WriteTriggers(<<>>, "Push", g.PushTriggers, g.Settings.AsJson)
        d2 == WriteTriggers(d1, "PullRequest", g.PullRequestTriggers, g.Settings.AsJson)
        d3 == WriteTriggers(d2, "WorkflowDispatch", g.DispatchTriggers, g.Settings.AsJson)
    IN WriteTriggers(d3, "IssueComment", g.IssueCommentTriggers, g.Settings.AsJson)

AllTriggers(g) ==
    g.PushTriggers \o g.PullRequestTriggers \o g.DispatchTriggers \o g.IssueCommentTriggers

ConfigPanics(g) ==
    \E i \in 1..Len(AllTriggers(g)) : asWorkflow(AllTriggers(g)[i].Pipeline).panic

\* as Config, but the triggers are discarded once they are rendered
ConfigDiscarding(prefix) ==
    /\ ret' = IF ConfigPanics(m)
              THEN Returned("Config", "panic", <<>>, <<>>)
              ELSE Returned("Config", "ok", <<>>, ConfigDirectory(m))
    /\ m' = [m EXCEPT !.PushTriggers = <<>>, !.PullRequestTriggers = <<>>,
                      !.DispatchTriggers = <<>>, !.IssueCommentTriggers = <<>>]
    /\ UNCHANGED <<calls, fnIn, fnOp, fnOut>>

\* Gha.Config
Config(prefix) ==
    /\ ret' = IF ConfigPanics(m)
              THEN Returned("Config", "panic", <<>>, <<>>)
              ELSE Returned("Config", "ok", <<>>, ConfigDirectory(m))
    /\ UNCHANGED <<m, calls, fnIn, fnOp, fnOut>>

\* the options of a call that gives none
NoOptions == [module |-> <<>>, runner |-> <<>>, sparseCheckout |-> <<>>]

Next ==
    \/ \E name \in Names, command \in Commands, secrets \in SecretLists,
          f \in PushFilters :
         OnPush(name, command, NoOptions.module, secrets, f.Branches, f.Tags, f.Paths,
                NoOptions.runner, NoOptions.sparseCheckout)
    \/ \E name \in Names, command \in Commands, secrets \in SecretLists,
          f \in PullRequestFilters :
         OnPullRequest(name, command, NoOptions.module, secrets, f.Branches, f.Types,
                       NoOptions.runner)
    \/ \E name \in Names, command \in Commands, secrets \in SecretLists,
          o \in PipelineOptions :
         OnDispatch(name, command, o.module, secrets, o.runner, o.sparseCheckout)
    \/ \E name \in Names, command \in Commands, secrets \in SecretLists,
          f \in IssueCommentFilters :
         OnIssueComment(name, command, NoOptions.module, secrets, NoOptions.runner,
                        NoOptions.sparseCheckout, f.Types)
    \/ \E prefix \in {<<>>} : Config(prefix)

Spec == Init /\ [][Next]_vars

----------------------------------------------------------------------------
(* The names the pure functions are studied on: every string of at most    *)
(* MaxNameLen characters, alone or followed by a long run of one letter so *)
(* that the truncation of jobID happens.                                   *)

ShortNames == UNION {[1..n -> NameChars] : n \in 0..MaxNameLen}

PadLens == {0, 97, 98}

Pad(k) == [i \in 1..k |-> "a"]

StudyNames == {s \o Pad(k) : s \in ShortNames, k \in PadLens}

----------------------------------------------------------------------------
(* The pure functions, applied to a name and then to their own result *)

NoGha == New(FALSE, <<>>, <<"latest">>, FALSE, FALSE, <<"ubuntu-latest">>)

InitFn ==
    /\ fnIn \in StudyNames
    /\ fnOp = "none"
    /\ fnOut = <<>>
    /\ m = NoGha
    /\ ret = Returned("New", "ok", <<>>, <<>>)
    /\ calls = <<>>

CallJobID ==
    /\ fnOp = "none"
    /\ fnOp' = "jobID"
    /\ fnOut' = <<jobID(fnIn)>>
    /\ UNCHANGED <<fnIn, m, ret, calls>>

CallWorkflowFilename ==
    /\ fnOp = "none"
    /\ fnOp' = "workflowFilename"
    /\ fnOut' = <<workflowFilename(fnIn)>>
    /\ UNCHANGED <<fnIn, m, ret, calls>>

\* the result is used as a name again
CallJobIDAgain ==
    /\ fnOp = "jobID"
    /\ Len(fnOut) = 1
    /\ fnOut' = Append(fnOut, jobID(fnOut[1]))
    /\ UNCHANGED <<fnIn, fnOp, m, ret, calls>>

CallWorkflowFilenameAgain ==
    /\ fnOp = "workflowFilename"
    /\ Len(fnOut) = 1
    /\ fnOut' = Append(fnOut, workflowFilename(fnOut[1]))
    /\ UNCHANGED <<fnIn, fnOp, m, ret, calls>>

NextFn == CallJobID \/ CallWorkflowFilename \/ CallJobIDAgain \/ CallWorkflowFilenameAgain

SpecFn == InitFn /\ [][NextFn]_vars

----------------------------------------------------------------------------
(* Gha.Check and Pipeline.Check.  The command line is a sequence of words    *)
(* and of the blanks between them; the run of the command in a container is *)
(* an outcome of the environment.                                           *)

\* the command line Pipeline.checkCommandAndModule builds
checkScript(p) ==
    <<"dagger", " ", "call">>
    \o (IF p.Module # <<>> THEN <<" ", "-m", " ", "'">> \o p.Module \o <<"'", " ">> ELSE <<>>)
    \o p.Command \o <<" ", "--help">>

\* Pipeline.checkCommandAndModule: the error of the run when it fails
checkCommandAndModule(p, fails) ==
    IF fails THEN <<"exec failed: ">> \o checkScript(p) ELSE <<>>

\* Pipeline.Check: the error, and the command lines that were run
pipelineCheck(p, fails) ==
    IF checkSecretNames(p) # <<>>
    THEN [err |-> checkSecretNames(p), scripts |-> <<>>]
    ELSE [err |-> checkCommandAndModule(p, fails), scripts |-> <<checkScript(p)>>]

\* as checkFrom, but the pipelines after the first error are checked as well
CheckFromAll(triggers, fails, i) ==
    LET rs == [j \in i..Len(triggers) |-> pipelineCheck(triggers[j].Pipeline, fails[j])]
        errs == {j \in i..Len(triggers) : rs[j].err # <<>>}
    IN [ err |-> IF errs = {} THEN <<>>
                 ELSE rs[CHOOSE j \in errs : \A k \in errs : j <= k].err,
         scripts |-> Concat([j \in 1..(Len(triggers) - i + 1) |-> rs[j + i - 1].scripts]) ]

\* the loops of Gha.Check over the triggers from position i on: the first error ends them
RECURSIVE checkFrom(_, _, _)
checkFrom(triggers, fails, i) ==
    IF i > Len(triggers) THEN [err |-> <<>>, scripts |-> <<>>]
    ELSE LET r == pipelineCheck(triggers[i].Pipeline, fails[i])
         IN IF r.err # <<>> THEN r
            ELSE LET rest == checkFrom(triggers, fails, i + 1)
                 IN [err |-> rest.err, scripts |-> r.scripts \o rest.scripts]

\* Gha.Check, fails[i] telling whether the command of the i-th pipeline fails if run
Check(fails) ==
    /\ LET r == checkFrom(AllTriggers(m), fails, 1)
       IN ret' = [scripts |-> r.scripts, fails |-> fails]
                 @@ Returned("Check", IF r.err = <<>> THEN "ok" ELSE "error", r.err, <<>>)
    /\ UNCHANGED <<m, calls, fnIn, fnOp, fnOut>>

\* the one name of the pipelines that are checked
CheckNames == { <<"a">> }

NextCheck ==
    \/ \E name \in CheckNames, command \in Commands, secrets \in SecretLists,
          f \in {f \in PushFilters : f.Tags = <<>>} :
         OnPush(name, command, NoOptions.module, secrets, f.Branches, f.Tags, f.Paths,
                NoOptions.runner, NoOptions.sparseCheckout)
    \/ \E name \in CheckNames, command \in Commands, secrets \in SecretLists,
          f \in PullRequestFilters :
         OnPullRequest(name, command, NoOptions.module, secrets, f.Branches, f.Types,
                       NoOptions.runner)
    \/ \E name \in CheckNames, command \in Commands, secrets \in SecretLists,
          o \in PipelineOptions :
         OnDispatch(name, command, o.module, secrets, o.runner, o.sparseCheckout)
    \/ \E name \in CheckNames, command \in Commands, secrets \in SecretLists,
          f \in IssueCommentFilters :
         OnIssueComment(name, command, NoOptions.module, secrets, NoOptions.runner,
                        NoOptions.sparseCheckout, f.Types)
    \/ \E fails \in [1..NumTriggers(m) -> BOOLEAN] : Check(fails)
    \/ \E prefix \in {<<>>} : Config(prefix)

SpecCheck == Init /\ [][NextCheck]_vars

----------------------------------------------------------------------------
(* One pipeline, made by Gha.pipeline from the arguments of a handler, and  *)
(* rendered by Pipeline.asWorkflow                                          *)

PublicTokens == { <<>>, <<"dag_public_token">> }

\* the arguments of New, over every setting a rendered pipeline reads
RenderSettings ==
    [ noTraces : BOOLEAN, publicToken : PublicTokens, daggerVersion : {<<"latest">>},
      stopEngine : BOOLEAN, asJson : {FALSE}, runner : {<<"ubuntu-latest">>} ]

RenderCommands == { <<"build --source=.">>, <<"test --all">> }

Modules == { <<>>, <<"github.com/shykes/core">> }

Runners == { <<>>, <<"self-hosted">> }

SecretTOK == <<"T", "O", "K">>

\* secret names that validateSecretNames accepts
RenderSecretLists ==
    { <<>>,
      << SecretTOK >>,
      << SecretTOK, KeyCOMMAND >>,
      << KeyGITHUB_ \o <<"T", "O", "K", "E", "N">>, KeyDAGGER_MODULE >>,
      << KeyDAGGER_CLOUD_TOKEN >>,
      << KeyEXPERIMENTAL_DAGGER_CLOUD_TOKEN, SecretTOK >> }

\* no list, an empty list, a list of two paths
SparseCheckouts == { <<>>, << <<>> >>, << << <<"src">>, <<"tests">> >> >> }

InitPipeline ==
    /\ \E a \in RenderSettings :
         m = New(a.noTraces, a.publicToken, a.daggerVersion, a.stopEngine, a.asJson, a.runner)
    /\ ret = Returned("New", "ok", <<>>, <<>>)
    /\ calls = <<>>
    /\ fnIn = <<>>
    /\ fnOp = "none"
    /\ fnOut = <<>>

\* Gha.pipeline called by a handler with its arguments
MakePipeline(name, command, module, runner, secrets, sparseCheckout) ==
    /\ fnIn = <<>>
    /\ fnIn' = <<pipeline(m, name, command, module, runner, secrets, sparseCheckout)>>
    /\ fnOp' = "pipeline"
    /\ ret' = [runner |-> runner] @@ Returned("pipeline", "ok", <<>>, <<>>)
    /\ UNCHANGED <<m, calls, fnOut>>

\* Pipeline.asWorkflow called on the pipeline
CallAsWorkflow ==
    /\ fnIn # <<>>
    /\ fnOut = <<>>
    /\ fnOp' = "asWorkflow"
    /\ LET r == asWorkflow(fnIn[1])
       IN /\ fnOut' = <<r>>
          /\ ret' = Returned("asWorkflow", IF r.panic THEN "panic" ELSE "ok", <<>>, <<>>)
    /\ UNCHANGED <<m, calls, fnIn>>

NextPipeline ==
    \/ \E command \in RenderCommands, module \in Modules, runner \in Runners,
          secrets \in RenderSecretLists, sparseCheckout \in SparseCheckouts :
         MakePipeline(<<"a">>, command, module, runner, secrets, sparseCheckout)
    \/ CallAsWorkflow

SpecPipeline == InitPipeline /\ [][NextPipeline]_vars

----------------------------------------------------------------------------
(* The registry of named pipelines of the design document, sections 4.1 to  *)
(* 4.3: withPipeline registers a pipeline under a name, the trigger         *)
(* operations attach filters to the pipelines of a list of names, and a     *)
(* pipeline is rendered with its triggers and its concurrency block.  The   *)
(* sources hold the callers of these operations only (.github/main.go), so  *)
(* the operations follow the document; the steps and the job of a rendered  *)
(* pipeline are those of Pipeline.asWorkflow above.                         *)

MaxPipelines == 2

\* New, with the pull-request-concurrency setting of the aggregator
NewRegistry(a, pullRequestConcurrency) ==
    [ Pipelines |-> <<>>,
      Settings |-> [PullRequestConcurrency |-> pullRequestConcurrency]
                   @@ New(a.noTraces, a.publicToken, a.daggerVersion, a.stopEngine,
                          a.asJson, a.runner).Settings ]

\* as registeredPipeline, but without a dispatch trigger whatever noDispatch is
RegisteredPipelineNoDispatch(g, name, command, module, runner, secrets, sparseCheckout, noDispatch, pullRequestConcurrency) ==
    [Triggers |-> NoTriggers]
    @@ pipeline(g, name, command, module, runner, secrets, sparseCheckout)

\* the pipeline that withPipeline creates: the settings of the aggregator, runner
\* and pullRequestConcurrency overridden when given, a dispatch trigger by default
registeredPipeline(g, name, command, module, runner, secrets, sparseCheckout, noDispatch, pullRequestConcurrency) ==
    LET p == pipeline(g, name, command, module, runner, secrets, sparseCheckout)
        settings == IF pullRequestConcurrency # <<>>
                    THEN [p.Settings EXCEPT !.PullRequestConcurrency = pullRequestConcurrency]
                    ELSE p.Settings
    IN [ Triggers |-> [NoTriggers EXCEPT
                         !.WorkflowDispatch = IF noDispatch THEN <<>> ELSE << <<>> >>] ]
       @@ [p EXCEPT !.Settings = settings]

\* as lookup, but the pipeline registered last under the name
LookupLast(g, name) ==
    IF \E i \in 1..Len(g.Pipelines) : g.Pipelines[i].Name = name
    THEN CHOOSE i \in 1..Len(g.Pipelines) :
             /\ g.Pipelines[i].Name = name
             /\ \A j \in (i + 1)..Len(g.Pipelines) : g.Pipelines[j].Name # name
    ELSE 0

\* the position of the pipeline of a name, 0 when there is none
lookup(g, name) ==
    IF \E i \in 1..Len(g.Pipelines) : g.Pipelines[i].Name = name
    THEN CHOOSE i \in 1..Len(g.Pipelines) :
             /\ g.Pipelines[i].Name = name
             /\ \A j \in 1..(i - 1) : g.Pipelines[j].Name # name
    ELSE 0

\* as appendFilters, but the new filter values replace the existing ones
AppendFiltersOverwrite(trigger, event) == <<event>>

\* lazily initialize the trigger, append the new filter values to the existing ones
appendFilters(trigger, event) ==
    IF trigger = <<>> THEN <<event>>
    ELSE << [k \in DOMAIN event |-> trigger[1][k] \o event[k]] >>

\* name after name: look the pipeline up, stop at the first that is absent
RECURSIVE attachEach(_, _, _, _)
attachEach(g, names, kind, event) ==
    IF names = <<>> THEN [err |-> <<>>, gha |-> g]
    ELSE LET i == lookup(g, Head(names))
         IN IF i = 0
            THEN [err |-> <<"pipeline not found: ">> \o Head(names), gha |-> g]
            ELSE attachEach([g EXCEPT !.Pipelines[i].Triggers[kind] = appendFilters(@, event)],
                            Tail(names), kind, event)

\* as attach, but a failed call returns the aggregator as it is when it stops
AttachPartial(g, names, kind, event) == attachEach(g, names, kind, event)

\* onPush, onPullRequest, onIssueComment: a failure returns the error and the
\* aggregator of before the call
attach(g, names, kind, event) ==
    LET r == attachEach(g, names, kind, event)
    IN IF r.err # <<>> THEN [err |-> r.err, gha |-> g] ELSE r

ConcurrencyGroup == <<"${{ github.workflow }}-${{ github.head_ref || github.run_id }}">>

\* as concurrencyBlock, but "allow" groups the runs as "queue" does
ConcurrencyBlockAllowGroups(setting) ==
    CASE setting \in {<<"queue">>, <<"allow">>} ->
           [fatal |-> FALSE, block |-> <<[Group |-> ConcurrencyGroup, CancelInProgress |-> FALSE]>>]
      [] setting = <<"preempt">> ->
           [fatal |-> FALSE, block |-> <<[Group |-> ConcurrencyGroup, CancelInProgress |-> TRUE]>>]
      [] setting = <<>> -> [fatal |-> FALSE, block |-> <<>>]
      [] OTHER -> [fatal |-> TRUE, block |-> <<>>]

\* the concurrency block of a pull-request-concurrency setting
concurrencyBlock(setting) ==
    CASE setting = <<"queue">> ->
           [fatal |-> FALSE, block |-> <<[Group |-> ConcurrencyGroup, CancelInProgress |-> FALSE]>>]
      [] setting = <<"preempt">> ->
           [fatal |-> FALSE, block |-> <<[Group |-> ConcurrencyGroup, CancelInProgress |-> TRUE]>>]
      [] setting \in {<<>>, <<"allow">>} -> [fatal |-> FALSE, block |-> <<>>]
      [] OTHER -> [fatal |-> TRUE, block |-> <<>>]

\* as concurrencyPolicy, but a value that is not known is taken as "allow"
ConcurrencyPolicyLenient(p) ==
    LET c == concurrencyBlock(p.Settings.PullRequestConcurrency)
    IN IF c.fatal THEN [fatal |-> FALSE, block |-> <<>>] ELSE c

\* the concurrency policy of a pipeline, fatal when its setting is not supported
concurrencyPolicy(p) == concurrencyBlock(p.Settings.PullRequestConcurrency)

\* Pipeline.asWorkflow of a registered pipeline: the steps and the job, the
\* triggers of the pipeline, the concurrency block of its setting
registeredAsWorkflow(p) ==
    LET r == asWorkflow(p)
        c == concurrencyPolicy(p)
    IN IF r.panic \/ c.fatal THEN [panic |-> TRUE]
       ELSE [ panic |-> FALSE,
              workflow |-> [Concurrency |-> c.block]
                           @@ [r.workflow EXCEPT !.On = p.Triggers] ]

MarshalConcurrency(c) ==
    IF c.CancelInProgress
    THEN ("group" :> c.Group) @@ ("cancel-in-progress" :> TRUE)
    ELSE ("group" :> c.Group)

\* the encoded document of a workflow with a concurrency block
MarshalRegistered(w) ==
    IF w.Concurrency = <<>> THEN Marshal(w)
    ELSE [concurrency |-> MarshalConcurrency(w.Concurrency[1])] @@ Marshal(w)

RegisteredNamesChoice == {<<"a">>, <<"a", " ", "b">>}

MissingName == <<"z">>

NameLists ==
    { << <<"a">> >>, << <<"a">>, <<"a", " ", "b">> >>, << <<"a">>, MissingName >>,
      << MissingName, <<"a", " ", "b">> >> }

PullRequestConcurrencies == {<<>>, <<"allow">>, <<"queue">>, <<"preempt">>, <<"serial">>}

InitRegistry ==
    /\ \E a \in NewArguments : m = NewRegistry(a, <<>>)
    /\ ret = Returned("New", "ok", <<>>, <<>>)
    /\ calls = <<>>
    /\ FnIdle

withPipeline(name, command, module, runner, secrets, sparseCheckout, noDispatch, pullRequestConcurrency) ==
    /\ Len(m.Pipelines) < MaxPipelines
    /\ LET err == validateSecretNames(secrets)
       IN IF err # <<>>
          THEN /\ ret' = Returned("withPipeline", "error", err, <<>>)
               /\ m' = m
          ELSE /\ ret' = [noDispatch |-> noDispatch]
                         @@ Returned("withPipeline", "ok", <<>>, <<>>)
               /\ m' = [m EXCEPT !.Pipelines = Append(@,
                           registeredPipeline(m, name, command, module, runner, secrets,
                                              sparseCheckout, noDispatch,
                                              pullRequestConcurrency))]
    /\ UNCHANGED <<calls, fnIn, fnOp, fnOut>>

\* the step of a trigger operation over a list of names
Attached(op, names, kind, event) ==
    /\ LET r == attach(m, names, kind, event)
       IN /\ m' = r.gha
          /\ ret' = [names |-> names]
                    @@ Returned(op, IF r.err = <<>> THEN "ok" ELSE "error", r.err, <<>>)
          /\ calls' = IF r.err = <<>> THEN Append(calls, [kind |-> kind]) ELSE calls
    /\ UNCHANGED <<fnIn, fnOp, fnOut>>

onPush(names, branches, tags, paths) ==
    /\ Len(calls) < MaxTriggers
    /\ Attached("onPush", names, "Push", [Branches |-> branches, Tags |-> tags, Paths |-> paths])

onPullRequest(names, types, branches, paths) ==
    /\ Len(calls) < MaxTriggers
    /\ Attached("onPullRequest", names, "PullRequest",
                [Types |-> types, Branches |-> branches, Paths |-> paths])

onIssueComment(names, types) ==
    /\ Len(calls) < MaxTriggers
    /\ Attached("onIssueComment", names, "IssueComment", [Types |-> types])

\* Pipeline.asWorkflow called on the pipeline at a position
RenderPipeline(i) ==
    /\ LET r == registeredAsWorkflow(m.Pipelines[i])
       IN ret' = [pipeline |-> i,
                  workflow |-> IF r.panic THEN <<>> ELSE <<r.workflow>>,
                  doc |-> IF r.panic THEN <<>> ELSE <<MarshalRegistered(r.workflow)>>]
                 @@ Returned("asWorkflow", IF r.panic THEN "fatal" ELSE "ok", <<>>, <<>>)
    /\ UNCHANGED <<m, calls, fnIn, fnOp, fnOut>>

NextRegistry ==
    \/ \E name \in RegisteredNamesChoice, command \in Commands, secrets \in SecretLists :
         withPipeline(name, command, NoOptions.module, NoOptions.runner, secrets,
                      NoOptions.sparseCheckout, FALSE, <<>>)
    \/ \E names \in NameLists, f \in PushFilters :
         onPush(names, f.Branches, f.Tags, f.Paths)
    \/ \E names \in NameLists, f \in PullRequestFilters :
         onPullRequest(names, f.Types, f.Branches, <<>>)
    \/ \E names \in NameLists, f \in IssueCommentFilters :
         onIssueComment(names, f.Types)

SpecRegistry == InitRegistry /\ [][NextRegistry]_vars

InitRender ==
    /\ \E a \in {a \in NewArguments : ~a.stopEngine},
          setting \in {<<>>, <<"preempt">>} : m = NewRegistry(a, setting)
    /\ ret = Returned("New", "ok", <<>>, <<>>)
    /\ calls = <<>>
    /\ FnIdle

NextRender ==
    \/ \E command \in Commands, noDispatch \in BOOLEAN,
          setting \in PullRequestConcurrencies :
         withPipeline(<<"a">>, command, NoOptions.module, NoOptions.runner,
                      << <<"T", "O", "K">> >>, NoOptions.sparseCheckout, noDispatch, setting)
    \/ \E f \in PullRequestFilters :
         onPullRequest(<< <<"a">> >>, f.Types, f.Branches, <<>>)
    \/ \E i \in 1..Len(m.Pipelines) : RenderPipeline(i)

SpecRender == InitRender /\ [][NextRender]_vars

----------------------------------------------------------------------------
(* Export of the registry, section 4.6 of the design document: every         *)
(* registered pipeline is rendered and written under its file name, in the  *)
(* order of registration; a rendering that fails ends the export.           *)

\* the file of one rendered pipeline
registeredFile(w, filename, asJson) ==
    Put(<<>>, <<".github/workflows/">> \o filename,
        [ header |-> genHeader,
          syntax |-> IF asJson THEN "json" ELSE "yaml",
          doc |-> MarshalRegistered(w) ])

\* the files of the pipelines that render, written in their order
RECURSIVE writePipelines(_, _, _)
writePipelines(dir, pipelines, asJson) ==
    IF pipelines = <<>> THEN dir
    ELSE LET r == registeredAsWorkflow(Head(pipelines))
         IN writePipelines(
                IF r.panic THEN dir
                ELSE WithDirectory(dir, registeredFile(r.workflow,
                                                       workflowFilename(Head(pipelines).Name),
                                                       asJson)),
                Tail(pipelines), asJson)

\* as registryConfig, but the files of the pipelines that render are kept on a failure
RegistryConfigPartial(g) ==
    [ fatal |-> \E i \in 1..Len(g.Pipelines) : registeredAsWorkflow(g.Pipelines[i]).panic,
      dir |-> writePipelines(<<>>, g.Pipelines, g.Settings.AsJson) ]

\* Aggregator.config: the overlay directory, or the failure and no directory
registryConfig(g) ==
    IF \E i \in 1..Len(g.Pipelines) : registeredAsWorkflow(g.Pipelines[i]).panic
    THEN [fatal |-> TRUE, dir |-> <<>>]
    ELSE [fatal |-> FALSE, dir |-> writePipelines(<<>>, g.Pipelines, g.Settings.AsJson)]

ConfigRegistry(prefix) ==
    /\ LET r == registryConfig(m)
       IN ret' = Returned("config", IF r.fatal THEN "fatal" ELSE "ok", <<>>, r.dir)
    /\ UNCHANGED <<m, calls, fnIn, fnOp, fnOut>>

ExportNames == {<<"a">>, <<"b">>}

ExportConcurrencies == {<<>>, <<"queue">>, <<"serial">>}

InitExport ==
    /\ \E a \in {a \in NewArguments : ~a.stopEngine} : m = NewRegistry(a, <<>>)
    /\ ret = Returned("New", "ok", <<>>, <<>>)
    /\ calls = <<>>
    /\ FnIdle

NextExport ==
    \/ \E name \in ExportNames, command \in Commands, setting \in ExportConcurrencies :
         withPipeline(name, command, NoOptions.module, NoOptions.runner,
                      << <<"T", "O", "K">> >>, NoOptions.sparseCheckout, FALSE, setting)
    \/ \E names \in {<< <<"a">> >>, << <<"a">>, <<"b">> >>}, f \in PushFilters :
         onPush(names, f.Branches, f.Tags, f.Paths)
    \/ \E prefix \in {<<>>} : ConfigRegistry(prefix)

SpecExport == InitExport /\ [][NextExport]_vars

----------------------------------------------------------------------------
(* The exec script (scripts/exec.sh): the shell of the script, the command  *)
(* and the two tee readers of the FIFOs stdout.fifo (stream 1) and          *)
(* stderr.fifo (stream 2).  A FIFO counts the processes that have it open   *)
(* for reading and for writing, a call of open included while it blocks; an *)
(* open returns once the other end has been opened.  The command writes any *)
(* number of chunks up to MaxChunks to each stream, in any order, and a     *)
(* FIFO holds PipeCap chunks.                                               *)

MaxChunks == 2

PipeCap == 1

Streams == {1, 2}

\* the values of COMMAND: unset, and a pipeline command
ExecCommands == { <<>>, <<"dagger call -q build --source=.">> }

NoFifo == [made |-> FALSE, buf |-> <<>>, readers |-> 0, writers |-> 0, wopens |-> 0]

InitExec ==
    /\ \E c \in ExecCommands :
         m = [ COMMAND |-> c,
               main |-> "check",
               command |-> "none",
               tee |-> <<"none", "none">>,
               fifo |-> <<NoFifo, NoFifo>>,
               sent |-> <<0, 0>>,
               txt |-> << <<>>, <<>> >>,
               GITHUB_OUTPUT |-> <<>> ]
    /\ ret = Returned("exec.sh", "running", <<>>, <<>>)
    /\ calls = <<>>
    /\ FnIdle

\* if [ -z "$COMMAND" ]: exit 1
MissingCommand ==
    /\ m.main = "check" /\ m.COMMAND = <<>>
    /\ m' = [m EXCEPT !.main = "exited"]
    /\ ret' = Returned("exec.sh", "exit 1", <<"Error: Please set the COMMAND environment variable.">>, <<>>)
    /\ UNCHANGED <<calls, fnIn, fnOp, fnOut>>

\* mkfifo stdout.fifo stderr.fifo
Mkfifo ==
    /\ m.main = "check" /\ m.COMMAND # <<>>
    /\ m' = [m EXCEPT !.main = "tee1", !.fifo[1].made = TRUE, !.fifo[2].made = TRUE]
    /\ UNCHANGED <<ret, calls, fnIn, fnOp, fnOut>>

\* tee stdout.txt < stdout.fifo &  and  tee stderr.txt < stderr.fifo >&2 &
StartTee(k) ==
    /\ m.main = (IF k = 1 THEN "tee1" ELSE "tee2")
    /\ m' = [m EXCEPT !.main = (IF k = 1 THEN "tee2" ELSE "command"), !.tee[k] = "forked"]
    /\ UNCHANGED <<ret, calls, fnIn, fnOp, fnOut>>

\* the background job calls open on its FIFO for reading
TeeCallOpen(k) ==
    /\ m.tee[k] = "forked"
    /\ m' = [m EXCEPT !.tee[k] = "open", !.fifo[k].readers = @ + 1]
    /\ UNCHANGED <<ret, calls, fnIn, fnOp, fnOut>>

\* the open for reading returns once the FIFO has been opened for writing
TeeOpen(k) ==
    /\ m.tee[k] = "open"
    /\ m.fifo[k].wopens > 0
    /\ m' = [m EXCEPT !.tee[k] = "reading"]
    /\ UNCHANGED <<ret, calls, fnIn, fnOp, fnOut>>

\* tee copies one chunk from the FIFO to its file
TeeCopy(k) ==
    /\ m.tee[k] = "reading"
    /\ m.fifo[k].buf # <<>>
    /\ m' = [m EXCEPT !.fifo[k].buf = Tail(@), !.txt[k] = Append(@, Head(m.fifo[k].buf))]
    /\ UNCHANGED <<ret, calls, fnIn, fnOp, fnOut>>

\* tee reads the end of file, the FIFO empty and open for writing by nobody, and exits
TeeEOF(k) ==
    /\ m.tee[k] = "reading"
    /\ m.fifo[k].buf = <<>>
    /\ m.fifo[k].writers = 0
    /\ m' = [m EXCEPT !.tee[k] = "exited", !.fifo[k].readers = @ - 1]
    /\ UNCHANGED <<ret, calls, fnIn, fnOp, fnOut>>

\* ( eval "$COMMAND" ) > stdout.fifo 2> stderr.fifo: the subshell is forked and the
\* script waits for it in the foreground
StartCommand ==
    /\ m.main = "command"
    /\ m' = [m EXCEPT !.main = "foreground", !.command = "forked"]
    /\ UNCHANGED <<ret, calls, fnIn, fnOp, fnOut>>

\* the subshell calls open on stdout.fifo for writing
CommandCallOpen ==
    /\ m.command = "forked"
    /\ m' = [m EXCEPT !.command = "open1", !.fifo[1].writers = @ + 1, !.fifo[1].wopens = @ + 1]
    /\ UNCHANGED <<ret, calls, fnIn, fnOp, fnOut>>

\* an open for writing returns once the FIFO is open for reading; after stdout.fifo
\* the subshell calls open on stderr.fifo, after stderr.fifo it runs the command
CommandOpen(k) ==
    /\ m.command = (IF k = 1 THEN "open1" ELSE "open2")
    /\ m.fifo[k].readers > 0
    /\ m' = IF k = 1
            THEN [m EXCEPT !.command = "open2", !.fifo[2].writers = @ + 1,
                           !.fifo[2].wopens = @ + 1]
            ELSE [m EXCEPT !.command = "running"]
    /\ UNCHANGED <<ret, calls, fnIn, fnOp, fnOut>>

\* the command writes one chunk to a stream; the write blocks while the FIFO is full
CommandWrite(k) ==
    /\ m.command = "running"
    /\ m.sent[k] < MaxChunks
    /\ Len(m.fifo[k].buf) < PipeCap
    /\ m' = [m EXCEPT !.sent[k] = @ + 1, !.fifo[k].buf = Append(@, m.sent[k] + 1)]
    /\ UNCHANGED <<ret, calls, fnIn, fnOp, fnOut>>

\* the command exits, which closes its ends of the two FIFOs
CommandExit ==
    /\ m.command = "running"
    /\ m' = [m EXCEPT !.command = "exited", !.fifo[1].writers = @ - 1,
                      !.fifo[2].writers = @ - 1]
    /\ UNCHANGED <<ret, calls, fnIn, fnOp, fnOut>>

\* the foreground command has exited: the script goes on to 'wait'
CommandReturns ==
    /\ m.main = "foreground"
    /\ m.command = "exited"
    /\ m' = [m EXCEPT !.main = "wait"]
    /\ UNCHANGED <<ret, calls, fnIn, fnOp, fnOut>>

\* as waitReturns, but as soon as one background job has exited
WaitReturnsAny(s) == \E k \in Streams : s.tee[k] = "exited"

\* 'wait' with no argument returns when every background job has exited
waitReturns(s) == \A k \in Streams : s.tee[k] = "exited"

Wait ==
    /\ m.main = "wait"
    /\ waitReturns(m)
    /\ m' = [m EXCEPT !.main = "output"]
    /\ UNCHANGED <<ret, calls, fnIn, fnOp, fnOut>>

\* { echo 'stdout<<EOF'; cat stdout.txt; ...; cat stderr.txt; echo 'EOF' } > $GITHUB_OUTPUT
WriteOutput ==
    /\ m.main = "output"
    /\ m' = [m EXCEPT !.main = "exited",
                      !.GITHUB_OUTPUT = <<[stdout |-> m.txt[1], stderr |-> m.txt[2]]>>]
    /\ ret' = Returned("exec.sh", "exit 0", <<>>, <<>>)
    /\ UNCHANGED <<calls, fnIn, fnOp, fnOut>>

\* the steps of the shell of the script
ScriptStep ==
    \/ MissingCommand
    \/ Mkfifo
    \/ \E k \in Streams : StartTee(k)
    \/ StartCommand
    \/ CommandReturns
    \/ Wait
    \/ WriteOutput

\* the steps of one tee
TeeStep(k) == TeeCallOpen(k) \/ TeeOpen(k) \/ TeeCopy(k) \/ TeeEOF(k)

NextExec ==
    \/ MissingCommand
    \/ Mkfifo
    \/ \E k \in Streams : StartTee(k)
    \/ \E k \in Streams : TeeCallOpen(k)
    \/ \E k \in Streams : TeeOpen(k)
    \/ \E k \in Streams : TeeCopy(k)
    \/ \E k \in Streams : TeeEOF(k)
    \/ StartCommand
    \/ CommandCallOpen
    \/ \E k \in Streams : CommandOpen(k)
    \/ \E k \in Streams : CommandWrite(k)
    \/ CommandExit
    \/ CommandReturns
    \/ Wait
    \/ WriteOutput

SpecExec == InitExec /\ [][NextExec]_vars

\* a process that can take a step is scheduled in the end: the shell of the script
\* and the two tees; the command may run for ever
FairExec == WF_vars(ScriptStep) /\ \A k \in Streams : WF_vars(TeeStep(k))

SpecExecFair == SpecExec /\ FairExec

----------------------------------------------------------------------------
(* Reading an exported directory *)

\* the value of a key of an encoded document, empty when the key was left out
Field(doc, k) == IF k \in DOMAIN doc THEN doc[k] ELSE <<>>

FilePath(name) == <<".github/workflows/">> \o workflowFilename(name)

Exported == ret.op = "Config" /\ ret.status = "ok"

\* the push triggers registered under a name
RECURSIVE PushTriggersOf(_, _)
PushTriggersOf(triggers, name) ==
    IF triggers = <<>> THEN <<>>
    ELSE (IF Head(triggers).Pipeline.Name = name THEN <<Head(triggers)>> ELSE <<>>)
         \o PushTriggersOf(Tail(triggers), name)

\* the lists of one filter of a sequence of push triggers, one after the other
RECURSIVE FilterInCallOrder(_, _)
FilterInCallOrder(triggers, filter) ==
    IF triggers = <<>> THEN <<>>
    ELSE Head(triggers).Event[filter] \o FilterInCallOrder(Tail(triggers), filter)

\* a name whose file no trigger of another kind and no other name writes
OnlyPushed(name) ==
    /\ \E i \in 1..Len(m.PushTriggers) : m.PushTriggers[i].Pipeline.Name = name
    /\ \A i \in 1..Len(AllTriggers(m)) :
         workflowFilename(AllTriggers(m)[i].Pipeline.Name) = workflowFilename(name)
         => /\ AllTriggers(m)[i].Pipeline.Name = name
            /\ i <= Len(m.PushTriggers)

\* C1: repeated OnPush calls on one pipeline are cumulative: the push trigger of the
\* exported workflow lists the branches (tags, paths) of all the calls, in call order
C1_PushCumulative ==
    Exported =>
      \A name \in Names :
        OnlyPushed(name) =>
          LET push == Field(ret.dir[FilePath(name)].doc.on, "push")
              mine == PushTriggersOf(m.PushTriggers, name)
          IN /\ Field(push, "branches") = FilterInCallOrder(mine, "Branches")
             /\ Field(push, "tags") = FilterInCallOrder(mine, "Tags")
             /\ Field(push, "paths") = FilterInCallOrder(mine, "Paths")

RegisteredNames(g) == {AllTriggers(g)[i].Pipeline.Name : i \in 1..Len(AllTriggers(g))}

\* C2: a trigger is attached only to a pipeline name that is registered: attaching to
\* an unregistered name fails and leaves the pipelines unchanged (so a call that
\* succeeded, or changed the pipelines, named a registered pipeline)
C2_AttachNeedsRegistered ==
    [][ (m' # m \/ calls' # calls)
        => calls'[Len(calls')].name \in RegisteredNames(m) ]_vars

\* the variables of the environment of every step of every job of an exported file
ExportedVariables(file) ==
    UNION { UNION { DOMAIN Field(file.doc.jobs[id].steps[i], "env")
                    : i \in 1..Len(file.doc.jobs[id].steps) }
            : id \in DOMAIN file.doc.jobs }

\* C4: a pipeline with a secret whose name does not match ^[A-Za-z0-9_]+$ is rejected
\* at registration: no pipeline holds such a secret and no exported file injects one
C4_InvalidSecretRejected ==
    /\ \A i \in 1..Len(AllTriggers(m)) :
         \A j \in 1..Len(AllTriggers(m)[i].Pipeline.Secrets) :
           ValidSecretName(AllTriggers(m)[i].Pipeline.Secrets[j])
    /\ \A f \in DOMAIN ret.dir :
         \A v \in ExportedVariables(ret.dir[f]) : ValidSecretName(v)

\* ^[A-Za-z_][A-Za-z0-9_-]{0,98}$
MatchesJobIDGrammar(s) ==
    /\ Len(s) >= 1
    /\ Len(s) <= 99
    /\ IsLetterOrUnderscore(s[1])
    /\ \A i \in 1..Len(s) : IsJobIDChar(s[i])

\* C5: for every pipeline name (here: every name that is not empty), jobID(name)
\* matches ^[A-Za-z_][A-Za-z0-9_-]{0,98}$
C5_JobIDGrammar ==
    (fnOp = "jobID" /\ fnOut # <<>> /\ fnIn # <<>>) => MatchesJobIDGrammar(fnOut[1])

\* ^[a-z0-9-]+\.yml$
MatchesFilenameGrammar(s) ==
    /\ Len(s) >= 5
    /\ SubSeq(s, Len(s) - 3, Len(s)) = YmlExt
    /\ \A i \in 1..(Len(s) - 4) : IsLowerAlnum(s[i]) \/ s[i] = "-"

HasSpaceOrPunctuation(s) ==
    \E i \in 1..Len(s) : s[i] \notin LowerChars \cup UpperChars \cup DigitChars

\* C6: for every name containing spaces or punctuation, workflowFilename(name)
\* matches ^[a-z0-9-]+\.yml$
C6_FilenameGrammar ==
    (fnOp = "workflowFilename" /\ fnOut # <<>> /\ HasSpaceOrPunctuation(fnIn))
    => MatchesFilenameGrammar(fnOut[1])

\* C7 as stated: workflowFilename(workflowFilename(n)) = workflowFilename(n)
C7_FilenameIdempotent ==
    (fnOp = "workflowFilename" /\ Len(fnOut) = 2) => fnOut[2] = fnOut[1]

WithoutExt(s) == SubSeq(s, 1, Len(s) - 4)

\* C7, amended: workflowFilename appends the extension at every application, so
\* applied to its own result it keeps the slug and turns the first extension into
\* "-yml": workflowFilename(workflowFilename(n)) is the slug of n, "-yml" (or "yml"
\* for an empty slug) and ".yml"
C7_FilenameReapplied ==
    (fnOp = "workflowFilename" /\ Len(fnOut) = 2) =>
      LET slug == WithoutExt(fnOut[1])
      IN fnOut[2] = (IF slug = <<>> THEN <<>> ELSE slug \o <<"-">>)
                    \o <<"y", "m", "l">> \o YmlExt

C7_Witness ==
    /\ fnOp = "workflowFilename"
    /\ Len(fnOut) = 2
    /\ fnIn = <<"B", " ", "a">>
    /\ fnOut[1] = <<"b", "-", "a">> \o YmlExt

\* the registration that was made last, whatever its kind
LastRegistered(file) ==
    LET i == CHOOSE i \in 1..Len(calls) :
                 /\ workflowFilename(calls[i].name) = file
                 /\ \A j \in (i + 1)..Len(calls) : workflowFilename(calls[j].name) # file
        kind == calls[i].kind
        nth == Cardinality({j \in 1..i : calls[j].kind = kind})
        list == CASE kind = "Push" -> m.PushTriggers
                  [] kind = "PullRequest" -> m.PullRequestTriggers
                  [] kind = "WorkflowDispatch" -> m.DispatchTriggers
                  [] kind = "IssueComment" -> m.IssueCommentTriggers
    IN [kind |-> kind, trigger |-> list[nth]]

\* C10: when two registered pipelines have the same file name, the exported file
\* holds the workflow of the one registered later, whatever their kinds of trigger
C10_LastRegisteredWins ==
    Exported =>
      \A i \in 1..Len(calls) :
        LET file == workflowFilename(calls[i].name)
            last == LastRegistered(file)
        IN ret.dir[<<".github/workflows/">> \o file]
           = triggerConfig(last.kind, last.trigger, file, m.Settings.AsJson)
               [<<".github/workflows/">> \o file]

C8_ConcurrencyBlock ==
    (ret.op = "asWorkflow" /\ ret.status = "ok") =>
      LET setting == m.Pipelines[ret.pipeline].Settings.PullRequestConcurrency
          doc == ret.doc[1]
          group == <<"${{ github.workflow }}-${{ github.head_ref || github.run_id }}">>
      IN /\ ("concurrency" \in DOMAIN doc) <=> (setting \in {<<"queue">>, <<"preempt">>})
         /\ setting = <<"queue">> => doc.concurrency = ("group" :> group)
         /\ setting = <<"preempt">>
            => doc.concurrency = ("group" :> group) @@ ("cancel-in-progress" :> TRUE)

C8_Witness ==
    /\ ret.op = "asWorkflow"
    /\ ret.status = "ok"
    /\ m.Pipelines[ret.pipeline].Settings.PullRequestConcurrency = <<"preempt">>
    /\ "cancel-in-progress" \in DOMAIN ret.doc[1].concurrency
    /\ \E j \in 1..Len(m.Pipelines) :
         m.Pipelines[j].Settings.PullRequestConcurrency = <<"allow">>

\* C9: rendering a pipeline whose setting is not unset, "allow", "queue" or "preempt"
\* is fatal and yields no workflow document
C9_UnsupportedConcurrencyFatal ==
    (ret.op = "asWorkflow"
     /\ m.Pipelines[ret.pipeline].Settings.PullRequestConcurrency
        \notin {<<>>, <<"allow">>, <<"queue">>, <<"preempt">>})
    => (ret.status = "fatal" /\ ret.workflow = <<>> /\ ret.doc = <<>>)

C9_Witness ==
    /\ ret.op = "asWorkflow"
    /\ ret.status = "fatal"
    /\ m.Pipelines[ret.pipeline].Settings.PullRequestConcurrency = <<"serial">>

\* a pipeline that an earlier pipeline of the same name shadows
Shadowed(g, i) == \E j \in 1..(i - 1) : g.Pipelines[j].Name = g.Pipelines[i].Name

Rendered == fnOp = "asWorkflow" /\ fnOut # <<>> /\ ~fnOut[1].panic

\* the steps of the one job of the workflow rendered
RenderedSteps == fnOut[1].workflow.Jobs[jobID(fnIn[1].Name)].Steps

\* the environment of the execute step of the workflow rendered
ExecEnv == RenderedSteps[4].Env

\* C12: whatever the secrets, module and settings of a pipeline with command c, the
\* execute step has the environment entry COMMAND = "dagger call -q " followed by c
C12_CommandEnv ==
    Rendered =>
      /\ <<"C", "O", "M", "M", "A", "N", "D">> \in DOMAIN ExecEnv
      /\ ExecEnv[<<"C", "O", "M", "M", "A", "N", "D">>]
         = <<"dagger call -q ">> \o fnIn[1].Command

\* C13: for every secret S of a pipeline, the environment of the execute step maps
\* S to "${{ secrets.S }}", whatever the module, token and tracing settings
C13_SecretEnv ==
    Rendered =>
      \A i \in 1..Len(fnIn[1].Secrets) :
        LET S == fnIn[1].Secrets[i]
        IN /\ S \in DOMAIN ExecEnv
           /\ ExecEnv[S] = <<"${{ secrets.">> \o S \o <<" }}">>

Declared(name) == \E i \in 1..Len(fnIn[1].Secrets) : fnIn[1].Secrets[i] = name

C17_StepSequence ==
    (fnOp = "asWorkflow" /\ fnOut # <<>>) =>
      /\ ~fnOut[1].panic
      /\ Len(RenderedSteps) = IF fnIn[1].Settings.StopEngine THEN 5 ELSE 4
      /\ RenderedSteps[1].Uses = <<"actions/checkout@v4">>
      /\ RenderedSteps[2].ID = <<"install-dagger">>
      /\ RenderedSteps[3].ID = <<"warm-engine">>
      /\ RenderedSteps[4].ID = <<"exec">>
      /\ fnIn[1].Settings.StopEngine
         => \E i \in 1..Len(RenderedSteps[5].Name) :
              RenderedSteps[5].Name[i] \in {"stop-engine", "scripts/stop-engine.sh"}

\* C18: with a sparse-checkout list configured, the 'sparse-checkout' parameter of the
\* checkout step is the configured paths in their order, then dagger.json, .dagger,
\* dagger, ci, joined by newlines; with none configured there is no such parameter
C18_SparseCheckout ==
    Rendered =>
      LET with == RenderedSteps[1].With
          configured == fnIn[1].SparseCheckout
      IN IF configured # <<>>
         THEN LET all == [i \in 1..Len(configured[1]) |-> configured[1][i][1]]
                         \o <<"dagger.json", ".dagger", "dagger", "ci">>
              IN /\ <<"sparse-checkout">> \in DOMAIN with
                 /\ with[<<"sparse-checkout">>]
                    = [i \in 1..(2 * Len(all) - 1) |->
                         IF i % 2 = 1 THEN all[(i + 1) \div 2] ELSE "\n"]
         ELSE <<"sparse-checkout">> \notin DOMAIN with

C18_Witness ==
    /\ Rendered
    /\ fnIn[1].SparseCheckout = << << <<"src">>, <<"tests">> >> >>
    /\ RenderedSteps[1].With[<<"sparse-checkout">>]
       = <<"src", "\n", "tests", "\n", "dagger.json", "\n", ".dagger", "\n", "dagger", "\n", "ci">>

IsPrefix(a, b) == Len(a) <= Len(b) /\ SubSeq(b, 1, Len(a)) = a

\* the operation that attaches the triggers of a kind
AttachOp == [Push |-> "onPush", PullRequest |-> "onPullRequest", IssueComment |-> "onIssueComment"]

HelpCommandLine(p) ==
    <<"dagger", " ", "call", " ">>
    \o (IF p.Module # <<>> THEN <<"-m", " ", "'">> \o p.Module \o <<"'", " ">> ELSE <<>>)
    \o p.Command \o <<" ", "--help">>

\* C20: the check validates the secret names of a pipeline first and runs the command
\* '<runtime> call [-m module] <command> --help' only when they are all valid; a
\* failure of either step is the error returned; a failed check changes nothing, and
\* a Config that follows generates the files all the same
C20_CheckAdvisory ==
    [][ /\ ret'.op = "Check"
           => /\ m' = m
              /\ \A k \in 1..Len(ret'.scripts) :
                   LET p == AllTriggers(m)[k].Pipeline
                   IN /\ \A j \in 1..Len(p.Secrets) : ValidSecretName(p.Secrets[j])
                      /\ ret'.scripts[k] = HelpCommandLine(p)
              /\ (ret'.status = "error") <=> (ret'.err # <<>>)
              /\ (\E i \in 1..NumTriggers(m), j \in 1..2 :
                     /\ j <= Len(AllTriggers(m)[i].Pipeline.Secrets)
                     /\ ~ValidSecretName(AllTriggers(m)[i].Pipeline.Secrets[j]))
                 => ret'.status = "error"
        /\ (ret.op = "Check" /\ ret'.op = "Config" /\ ~ConfigPanics(m))
           => (ret'.status = "ok" /\ ret'.dir = ConfigDirectory(m)) ]_vars

C22_UsesOrRun ==
    Rendered =>
      \A i \in 1..Len(RenderedSteps) :
        (RenderedSteps[i].Uses # <<>>) # (RenderedSteps[i].Run # <<>>)

C22_Witness ==
    /\ Rendered
    /\ RenderedSteps[1].Uses # <<>> /\ RenderedSteps[1].Run = <<>>
    /\ RenderedSteps[4].Uses = <<>> /\ RenderedSteps[4].Run # <<>>
    /\ fnIn[1].SparseCheckout # <<>>

\* the variable that mirrors a key of the GitHub context
MirrorOf(k) == KeyGITHUB_ \o ToUpper(k)

C29_OutputsReferToExec ==
    Rendered =>
      LET job == fnOut[1].workflow.Jobs[jobID(fnIn[1].Name)]
      IN /\ job.Outputs.stdout = <<"${{ steps.exec.outputs.stdout }}">>
         /\ job.Outputs.stderr = <<"${{ steps.exec.outputs.stderr }}">>
         /\ Cardinality({i \in 1..Len(job.Steps) : job.Steps[i].ID = <<"exec">>}) = 1
         /\ \A i \in 1..Len(job.Steps) :
              job.Steps[i].ID = <<"exec">> <=> KeyCOMMAND \in DOMAIN job.Steps[i].Env

C29_Witness ==
    /\ Rendered
    /\ Len(RenderedSteps) = 4
    /\ RenderedSteps[4].ID = <<"exec">>
    /\ KeyCOMMAND \in DOMAIN RenderedSteps[4].Env
    /\ RenderedSteps[2].ID = <<"install-dagger">>
    /\ fnIn[1].Secrets # <<>>

\* the key of a kind of trigger in the 'on' section of a workflow
KindTag == [ Push |-> "push", PullRequest |-> "pull_request",
             WorkflowDispatch |-> "workflow_dispatch", IssueComment |-> "issue_comment" ]

\* the elements of a list
Elements(list) == {list[i] : i \in 1..Len(list)}

\* C24: every trigger attached with success to a pipeline name appears in the file
\* Config exports for that name: the file of n has a push trigger listing the
\* branches of each successful OnPush of n, together with every other kind of
\* trigger registered for n, for any sequence of registrations
C24_AttachedTriggersExported ==
    Exported =>
      /\ \A i \in 1..Len(calls) :
           KindTag[calls[i].kind]
           \in DOMAIN Field(ret.dir[FilePath(calls[i].name)].doc, "on")
      /\ \A i \in 1..Len(m.PushTriggers) :
           LET t == m.PushTriggers[i]
               on == Field(ret.dir[FilePath(t.Pipeline.Name)].doc, "on")
           IN Elements(t.Event.Branches)
              \subseteq Elements(Field(Field(on, "push"), "branches"))

\* the list of triggers a handler appends to
ListOfOp == [ OnPush |-> "PushTriggers", OnPullRequest |-> "PullRequestTriggers",
              OnDispatch |-> "DispatchTriggers", OnIssueComment |-> "IssueCommentTriggers" ]

C26_ConfigReadOnly ==
    [][ ret'.op = "Config"
        => /\ m' = m
           /\ ret.op = "Config" => ret' = ret ]_vars

C26_Witness ==
    /\ Exported
    /\ Cardinality(DOMAIN ret.dir) = 2
    /\ \E i \in 1..Len(m.DispatchTriggers) :
         /\ m.DispatchTriggers[i].Pipeline.SparseCheckout # <<>>
         /\ m.DispatchTriggers[i].Pipeline.Secrets # <<>>
    /\ ret.dir = ConfigDirectory(m)

\* the pipelines in the order of the claim: push, pull-request, dispatch and
\* issue-comment triggers, each kind in its order of registration
InCheckOrder(g) ==
    [i \in 1..NumTriggers(g) |->
       (g.PushTriggers \o g.PullRequestTriggers \o g.DispatchTriggers
        \o g.IssueCommentTriggers)[i].Pipeline]

\* C27: Check visits the pipelines of the push, pull-request, dispatch and
\* issue-comment triggers in that order and stops at the first pipeline whose check
\* fails: it returns the error of that pipeline, checks no later pipeline, and
\* succeeds only when the check of every pipeline passed
C27_CheckOrder ==
    ret.op = "Check" =>
      LET ps == InCheckOrder(m)
          failing == {i \in 1..Len(ps) : checkSecretNames(ps[i]) # <<>> \/ ret.fails[i]}
      IN IF failing = {}
         THEN /\ ret.status = "ok"
              /\ ret.scripts = [i \in 1..Len(ps) |-> checkScript(ps[i])]
         ELSE LET first == CHOOSE i \in failing : \A j \in failing : i <= j
                  ran == IF checkSecretNames(ps[first]) # <<>> THEN first - 1 ELSE first
              IN /\ ret.status = "error"
                 /\ ret.err = IF checkSecretNames(ps[first]) # <<>>
                              THEN checkSecretNames(ps[first])
                              ELSE checkCommandAndModule(ps[first], TRUE)
                 /\ ret.scripts = [i \in 1..ran |-> checkScript(ps[i])]

C27_Witness ==
    /\ ret.op = "Check" /\ ret.status = "error"
    /\ Len(calls) = 2
    /\ calls[1].kind = "WorkflowDispatch" /\ calls[2].kind = "Push"
    /\ m.DispatchTriggers[1].Pipeline.Module # <<>>
    /\ ret.fails = <<TRUE, TRUE>>
    /\ ret.scripts = <<checkScript(m.PushTriggers[1].Pipeline)>>
    /\ ret.err = checkCommandAndModule(m.PushTriggers[1].Pipeline, TRUE)

\* C28: jobID is idempotent: for every name n, jobID(jobID(n)) = jobID(n)
C28_JobIDIdempotent ==
    (fnOp = "jobID" /\ Len(fnOut) = 2) => fnOut[2] = fnOut[1]

C28_Witness ==
    /\ fnOp = "jobID"
    /\ Len(fnOut) = 2
    /\ Len(fnIn) > JobIDMaxLen
    /\ fnIn[1] \in DigitChars
    /\ fnOut[1][1] = "_"
    /\ Len(fnOut[1]) = JobIDMaxLen
    /\ fnOut[2] = fnOut[1]

\* the chunks the command has written to a stream, in the order it wrote them
Sent(k) == [i \in 1..m.sent[k] |-> i]

\* C30: in the exec script with COMMAND set, the step outputs are written to
\* GITHUB_OUTPUT only after the command and the two background tees have terminated
\* (so with everything the command wrote), under every interleaving of the three
\* processes, and once the command has exited the script always reaches that write:
\* the hand-off through the FIFOs cannot deadlock
C30_OutputAfterCapture ==
    /\ [](m.GITHUB_OUTPUT # <<>>
          => /\ m.command = "exited"
             /\ \A k \in Streams : m.tee[k] = "exited"
             /\ m.GITHUB_OUTPUT[1] = [stdout |-> Sent(1), stderr |-> Sent(2)])
    /\ (m.command = "exited") ~> (m.GITHUB_OUTPUT # <<>>)

C30_Witness ==
    /\ m.COMMAND # <<>>
    /\ m.GITHUB_OUTPUT # <<>>
    /\ m.GITHUB_OUTPUT[1].stdout = <<1, 2>>
    /\ m.GITHUB_OUTPUT[1].stderr = <<1, 2>>
    /\ m.command = "exited"
    /\ m.tee = <<"exited", "exited">>
    /\ ret.status = "exit 0"

====
